---- MODULE Spec2Model ----
(***************************************************************************)
(* Tool-call orchestration of Tugapi/MCP-example.                          *)
(*                                                                         *)
(*   client.py              single-shot client: chat_loop -> process_query *)
(*                          -> plan_tool_use, then the plan loop and the   *)
(*                          summary completion.                            *)
(*   fastmcp_sse_client.py  iterative client: ChatSession.start and        *)
(*                          ChatSession.process_llm_response.              *)
(*                                                                         *)
(* Text is a sequence of tokens.  The tokens "{", "}", " " and "\n" are    *)
(* single characters; every other token is a word that holds none of       *)
(* them, so str.startswith("{{"), str.endswith("}}"), str.strip("{} ")     *)
(* and the regular expression of plan_tool_use act on tokens exactly as    *)
(* they act on characters.                                                 *)
(***************************************************************************)
EXTENDS Integers, Sequences, FiniteSets, TLC

VARIABLES
    program,        \* which main() runs: "client" (client.py) or "sse"
    pc,             \* chat_loop: "input", "process_query", "report", "exited"
    query,          \* chat_loop: the query read at line 128
    planner_reply,  \* the text the model is scripted to return to the planning call
    tool_host,      \* the tool host's scripted answers to the query's call_tool requests
    model_summary,  \* the model's scripted answer to the summary call
    tool_plan,      \* process_query: tool_plan (line 76), unbound until assigned
    messages,       \* process_query: the transcript (line 70)
    tool_outputs,   \* process_query: tool name -> recorded output (line 77)
    tool_calls,     \* the tool host's log of call_tool requests of this query
    outcome,        \* what process_query returned or raised
    printed,        \* what chat_loop printed, one entry per query
    s_pc,           \* ChatSession.start: "input", "respond", "process", "exited", "crashed"
    s_messages,     \* ChatSession.start: messages (line 69), kept for the session
    llm_response,   \* ChatSession.start: the reply being processed
    replies,        \* the model replies of the current user turn, in order
    turn_calls,     \* call_tool requests of the current user turn
    turns,          \* user turns started in this session
    requests,       \* get_response calls answered in this session
    r_pc,           \* resolver harness: "start", "once", "twice"
    r_args,         \* resolver harness: the step's arguments as planned
    r_outputs,      \* resolver harness: the recorded outputs
    r_once,         \* resolver harness: arguments after one resolution
    r_twice         \* resolver harness: arguments after a second resolution

vars == <<program, pc, query, planner_reply, tool_host, model_summary, tool_plan,
          messages, tool_outputs, tool_calls,
          outcome, printed, s_pc, s_messages, llm_response, replies, turn_calls,
          turns, requests, r_pc, r_args, r_outputs, r_once, r_twice>>

client_vars == <<pc, query, planner_reply, tool_host, model_summary, tool_plan,
                 messages, tool_outputs, tool_calls,
                 outcome, printed>>
sse_vars == <<s_pc, s_messages, llm_response, replies, turn_calls, turns, requests>>
resolver_vars == <<r_pc, r_args, r_outputs, r_once, r_twice>>

----------------------------------------------------------------------------
(* Bounds of the exploration.                                              *)

\* queries one chat_loop session reads
MaxQueries == 2
\* user turns one ChatSession reads
MaxTurns == 2
\* model replies explored within one ChatSession
MaxReplies == 3
\* steps of the longest plan explored
MaxPlanLen == 3
\* tokens of the longest argument text the resolver harness enumerates
MaxTextLen == 5
\* the iteration bound the specification asks for; the source configures none
IterationBound == 2

----------------------------------------------------------------------------
(* Python values and text.                                                 *)

\* a str value: its tokens
Str(s) == [t |-> "str", s |-> s]
\* None
None == [t |-> "None", s |-> <<>>]
\* a JSON number
Num == [t |-> "num", s |-> <<>>]

EmptyDict == [k \in {} |-> None]

RECURSIVE LStrip(_, _)
\* str.lstrip(chars)
LStrip(s, chars) ==
    IF s # <<>> /\ Head(s) \in chars THEN LStrip(Tail(s), chars) ELSE s

RECURSIVE RStrip(_, _)
\* str.rstrip(chars)
RStrip(s, chars) ==
    IF s # <<>> /\ s[Len(s)] \in chars
    THEN RStrip(SubSeq(s, 1, Len(s) - 1), chars)
    ELSE s

\* str.strip(chars)
Strip(s, chars) == RStrip(LStrip(s, chars), chars)

\* val.startswith("{{")
StartsWithBraces(s) == Len(s) >= 2 /\ s[1] = "{" /\ s[2] = "{"
\* val.endswith("}}")
EndsWithBraces(s) == Len(s) >= 2 /\ s[Len(s)] = "}" /\ s[Len(s) - 1] = "}"

\* the test of line 84
IsPlaceholderValue(val) ==
    val.t = "str" /\ StartsWithBraces(val.s) /\ EndsWithBraces(val.s)

\* dict.get(ref_key, None) on a dict keyed by tool name; a key of several
\* tokens ("a}} and {{b") or of none ("") names no tool
DictGet(d, ref_key) ==
    IF Len(ref_key) = 1 /\ ref_key[1] \in DOMAIN d THEN d[ref_key[1]] ELSE None

\* a faulty variant: the substituted value is resolved again while it still
\* looks like a placeholder (a recursive placeholder chain, one level deep)
ResolveValueChained(val, outputs) ==
    IF IsPlaceholderValue(val)
    THEN LET first == DictGet(outputs, Strip(val.s, {"{", "}", " "}))
         IN  IF IsPlaceholderValue(first)
             THEN DictGet(outputs, Strip(first.s, {"{", "}", " "}))
             ELSE first
    ELSE val

\* lines 84-87 for one value
ResolveValue(val, outputs) ==
    IF IsPlaceholderValue(val)
    THEN DictGet(outputs, Strip(val.s, {"{", "}", " "}))
    ELSE val

\* lines 83-87: every value of tool_args, in place
ResolveArgs(args, outputs) ==
    [k \in DOMAIN args |-> ResolveValue(args[k], outputs)]

\* txt_filename and txt_path of lines 66-67
TxtFilename == Str(<<"sentiment_kw_ts.txt">>)
TxtPath == Str(<<"sentiment_report/sentiment_kw_ts.txt">>)

\* lines 89-92
InjectDefaults(tool_name, args) ==
    LET a1 == IF tool_name = "analyze_sentiment" /\ "filename" \notin DOMAIN args
              THEN args @@ ("filename" :> TxtFilename)
              ELSE args
    IN  IF tool_name = "send_email_with_attachment" /\ "attachment_path" \notin DOMAIN a1
        THEN a1 @@ ("attachment_path" :> TxtPath)
        ELSE a1

----------------------------------------------------------------------------
(* client.py: plan_tool_use.                                               *)
(*                                                                         *)
(* The planner's reply is a sequence of tokens [c, obj]: c is the token's  *)
(* text and obj the JSON object it spells when the token is one whole      *)
(* object literal.  "[", "]", ",", "7", " " and "\n" are single            *)
(* characters; "fence" (three backquotes), "json", "prose" and an object   *)
(* literal are longer.                                                     *)

NoObj == [none |-> TRUE]
Tok(c) == [c |-> c, obj |-> NoObj]
ObjTok(o) == [c |-> "{..}", obj |-> o]
WS == {Tok(" "), Tok("\n")}
SingleChars == {"[", "]", ",", "7", " ", "\n"}

\* the first character of a token: the token itself when it is one
\* character long, else a fragment that spells nothing
FirstChar(tok) ==
    IF tok.c \in SingleChars THEN tok ELSE [c |-> "<1 char>", obj |-> NoObj]

\* the keyword arguments json.JSONEncoder.__init__ accepts
JSONEncoderKeywords ==
    {"skipkeys", "ensure_ascii", "check_circular", "allow_nan", "sort_keys",
     "indent", "separators", "default"}

\* the keyword arguments of the json.dumps call of line 138
DumpsKeywords == {"esure_ascii", "indent"}

\* json.dumps(obj, **kw): the exception it raises, "" when it returns
JsonDumps(kw) == IF kw \subseteq JSONEncoderKeywords THEN "" ELSE "TypeError"

\* line 165: group(1) of re.search(r"(?:json)?\s*([\s\S]+?)\s*", content),
\* or content itself when nothing matches (lines 166-169).  The lazy group
\* followed by \s* takes one character: the first one after an optional
\* leading "json" and white space, or, when nothing follows them, the first
\* character of content.
JsonText(content) ==
    IF content = <<>>
    THEN content
    ELSE LET after == IF Head(content) = Tok("json") THEN Tail(content) ELSE content
             rest  == LStrip(after, WS)
         IN  IF rest # <<>> THEN <<FirstChar(Head(rest))>>
                            ELSE <<FirstChar(Head(content))>>

\* the value tokens and the commas of an array's inside alternate
ArrayInside(inner) ==
    \/ inner = <<>>
    \/ /\ Len(inner) % 2 = 1
       /\ \A i \in 1..Len(inner) :
            IF i % 2 = 1 THEN inner[i].obj # NoObj \/ inner[i].c = "7"
                         ELSE inner[i].c = ","

\* json.loads(text): [ok, list, value]; ok is FALSE when it raises
\* JSONDecodeError, list tells a JSON array, value holds the array's elements
JsonLoads(text) ==
    LET t == SelectSeq(text, LAMBDA x : x \notin WS)
    IN  IF Len(t) = 1 /\ (t[1].obj # NoObj \/ t[1].c = "7")
        THEN [ok |-> TRUE, list |-> FALSE, value |-> <<>>]
        ELSE IF /\ Len(t) >= 2 /\ t[1].c = "[" /\ t[Len(t)].c = "]"
                /\ ArrayInside(SubSeq(t, 2, Len(t) - 1))
        THEN [ok |-> TRUE, list |-> TRUE,
              value |-> LET inner == SubSeq(t, 2, Len(t) - 1)
                        IN  [j \in 1..((Len(inner) + 1) \div 2) |-> inner[2 * j - 1].obj]]
        ELSE [ok |-> FALSE, list |-> FALSE, value |-> <<>>]

\* lines 136-176: [raised, plan]; raised is "" when plan_tool_use returns
plan_tool_use(reply) ==
    IF JsonDumps(DumpsKeywords) # ""
    THEN [raised |-> JsonDumps(DumpsKeywords), plan |-> <<>>]
    ELSE LET content == Strip(reply, WS)
             loaded  == JsonLoads(JsonText(content))
         IN  [raised |-> "",
              plan   |-> IF loaded.ok /\ loaded.list THEN loaded.value ELSE <<>>]

----------------------------------------------------------------------------
(* client.py: process_query.                                               *)

\* line 69
NewQuery(q) == Str(<<q, " ", "[txt_filename]", " ", "[txt_path]">>)

RECURSIVE RunPlan(_, _, _)
\* lines 79-96 from step i on.  st = [messages, tool_outputs, tool_calls,
\* raised]; host[i] scripts the tool host's answer to the i-th call_tool.
RunPlan(plan, st, host) ==
    LET i == Len(st.tool_calls) + 1 IN
    IF plan = <<>> \/ st.raised # ""
    THEN st
    ELSE LET step == Head(plan) IN
         IF step = NoObj \/ "name" \notin DOMAIN step \/ "arguments" \notin DOMAIN step
         THEN [st EXCEPT !.raised = IF step = NoObj THEN "TypeError" ELSE "KeyError"]
         ELSE LET tool_name == step["name"]
                  tool_args == InjectDefaults(tool_name,
                                   ResolveArgs(step["arguments"], st.tool_outputs))
                  call == [name |-> tool_name, arguments |-> tool_args]
              IN  IF host[i].raises
                  THEN [st EXCEPT !.tool_calls = Append(@, call),
                                  !.raised = "McpError"]
                  ELSE RunPlan(Tail(plan),
                           [st EXCEPT
                              !.tool_calls = Append(@, call),
                              !.tool_outputs =
                                  [n \in DOMAIN @ \cup {tool_name} |->
                                      IF n = tool_name THEN Str(host[i].text) ELSE @[n]],
                              !.messages = Append(@, [role |-> "tool",
                                                      tool_call_id |-> tool_name,
                                                      content |-> Str(host[i].text)])],
                           host)

\* a local variable before its assignment
Unbound == [bound |-> FALSE, plan |-> <<>>]

\* lines 48-121: [tool_plan, messages, tool_outputs, tool_calls, outcome];
\* outcome is [raised, value]: the exception raised, or "" and the returned
\* final_output
process_query(q, reply, host, summary) ==
    LET st0 == [messages |-> <<[role |-> "user", tool_call_id |-> "",
                                content |-> NewQuery(q)]>>,
                tool_outputs |-> EmptyDict, tool_calls |-> <<>>, raised |-> ""]
        planned == plan_tool_use(reply)
        st == IF planned.raised # ""
              THEN [st0 EXCEPT !.raised = planned.raised]
              ELSE RunPlan(planned.plan, st0, host)
    IN  [tool_plan |-> IF planned.raised # "" THEN Unbound
                       ELSE [bound |-> TRUE, plan |-> planned.plan],
         messages |-> st.messages, tool_outputs |-> st.tool_outputs,
         tool_calls |-> st.tool_calls,
         outcome |-> IF st.raised # "" THEN [raised |-> st.raised, value |-> None]
                     ELSE IF summary.raises THEN [raised |-> "APIError", value |-> None]
                     ELSE [raised |-> "", value |-> Str(summary.text)]]

----------------------------------------------------------------------------
(* client.py: the scripted collaborators of one query.                     *)

Queries == {"q1", "q2"}

StepObj(name, args) == [name |-> name, arguments |-> args]
\* the placeholder text {{name}}
Placeholder(name) == Str(<<"{", "{", name, "}", "}">>)

PlanChain ==
    <<StepObj("search_google_news", ("keywords" :> Str(<<"kw">>))),
      StepObj("analyze_sentiment", ("text" :> Placeholder("search_google_news")))>>
PlanBadGood ==
    <<StepObj("no_such_tool", EmptyDict),
      StepObj("search_google_news", ("keywords" :> Str(<<"kw">>)))>>
PlanOmitsDefault ==
    <<StepObj("analyze_sentiment", ("text" :> Str(<<"t">>)))>>
PlanSuppliesDefault ==
    <<StepObj("analyze_sentiment",
              ("text" :> Str(<<"t">>)) @@ ("filename" :> Str(<<"g.txt">>)))>>
PlanNoDefault ==
    <<StepObj("search_google_news", ("keywords" :> Str(<<"kw">>)))>>
\* a step whose placeholder names a tool that has not run
PlanUnresolved ==
    <<StepObj("search_google_news", ("keywords" :> Placeholder("analyze_sentiment")))>>
\* the same tool twice, then a step that refers to it
PlanRepeat ==
    <<StepObj("search_google_news", ("keywords" :> Str(<<"kw">>))),
      StepObj("search_google_news", ("keywords" :> Str(<<"kw2">>))),
      StepObj("analyze_sentiment", ("text" :> Placeholder("search_google_news")))>>
\* a step that supplies the defaulted argument as an unresolved placeholder
PlanDefaultUnresolved ==
    <<StepObj("analyze_sentiment",
              ("text" :> Str(<<"t">>)) @@ ("filename" :> Placeholder("no_such_tool")))>>
WellFormedPlans ==
    {<<>>, PlanChain, PlanBadGood, PlanOmitsDefault, PlanSuppliesDefault, PlanNoDefault,
     PlanUnresolved, PlanRepeat, PlanDefaultUnresolved}

RECURSIVE Elements(_)
\* the elements of a JSON array, comma separated
Elements(plan) ==
    IF plan = <<>> THEN <<>>
    ELSE IF Len(plan) = 1 THEN <<ObjTok(plan[1])>>
    ELSE <<ObjTok(plan[1]), Tok(","), Tok(" ")>> \o Elements(Tail(plan))

\* the JSON text of a plan
ArrayText(plan) == <<Tok("[")>> \o Elements(plan) \o <<Tok("]")>>

Wraps == {"bare", "fence", "prose"}
Wrap(w, text) ==
    CASE w = "bare"  -> text
      [] w = "fence" -> <<Tok("fence"), Tok("json"), Tok("\n")>> \o text
                            \o <<Tok("\n"), Tok("fence")>>
      [] w = "prose" -> <<Tok("prose"), Tok(" ")>> \o text \o <<Tok(" "), Tok("prose")>>

\* the replies that spell plan, bare, fenced or inside prose
TextsOf(plan) == {Wrap(w, ArrayText(plan)) : w \in Wraps}

\* non-JSON, a truncated array, a JSON value that is no array, an array
\* with an element lacking arguments, an array with an element lacking name
MalformedReplies ==
    {<<Tok("prose")>>,
     <<Tok("["), ObjTok(PlanNoDefault[1])>>,
     <<ObjTok(PlanNoDefault[1])>>,
     <<Tok("7")>>,
     <<Tok("["), ObjTok([name |-> "search_google_news"]), Tok("]")>>,
     <<Tok("["), ObjTok([arguments |-> EmptyDict]), Tok("]")>>}

PlannerReplies == UNION {TextsOf(p) : p \in WellFormedPlans} \cup MalformedReplies

\* what the tool host answers to one call_tool: a text, or an exception
HostReplies ==
    {[raises |-> TRUE, text |-> <<>>],
     [raises |-> FALSE, text |-> <<"42">>],
     [raises |-> FALSE, text |-> <<"{", "{", "search_google_news", "}", "}">>]}
HostScripts == [1..MaxPlanLen -> HostReplies]

\* what the model answers to the summary call of line 98
SummaryReplies ==
    {[raises |-> TRUE, text |-> <<>>], [raises |-> FALSE, text |-> <<"answer">>]}

----------------------------------------------------------------------------
(* client.py: chat_loop.                                                   *)

ClientInit ==
    /\ pc = "input"
    /\ query = ""
    /\ planner_reply = <<>>
    /\ tool_host = [i \in 1..MaxPlanLen |-> [raises |-> FALSE, text |-> <<"42">>]]
    /\ model_summary = [raises |-> FALSE, text |-> <<"answer">>]
    /\ tool_plan = Unbound
    /\ messages = <<>>
    /\ tool_outputs = EmptyDict
    /\ tool_calls = <<>>
    /\ outcome = [raised |-> "", value |-> None]
    /\ printed = <<>>

\* lines 128-131: a query is read and handed to process_query
ChatLoopInput ==
    /\ program = "client" /\ pc = "input"
    /\ Len(printed) < MaxQueries
    /\ \E q \in Queries : query' = q
    /\ pc' = "process_query"
    /\ UNCHANGED <<program, planner_reply, tool_host, model_summary, tool_plan,
                   messages, tool_outputs, tool_calls, outcome, printed>>
    /\ UNCHANGED sse_vars /\ UNCHANGED resolver_vars

\* lines 129-130: "quit" ends the loop
ChatLoopQuit ==
    /\ program = "client" /\ pc = "input"
    /\ pc' = "exited"
    /\ UNCHANGED <<program, query, planner_reply, tool_host, model_summary,
                   tool_plan, messages, tool_outputs, tool_calls, outcome, printed>>
    /\ UNCHANGED sse_vars /\ UNCHANGED resolver_vars

\* line 131: await self.process_query(query), against the scripted model
\* and tool host
ProcessQuery ==
    /\ program = "client" /\ pc = "process_query"
    /\ \E reply \in PlannerReplies, host \in HostScripts, summary \in SummaryReplies :
         LET run == process_query(query, reply, host, summary)
         IN  /\ planner_reply' = reply
             /\ tool_host' = host
             /\ model_summary' = summary
             /\ tool_plan' = run.tool_plan
             /\ messages' = run.messages
             /\ tool_outputs' = run.tool_outputs
             /\ tool_calls' = run.tool_calls
             /\ outcome' = run.outcome
    /\ pc' = "report"
    /\ UNCHANGED <<program, query, printed>>
    /\ UNCHANGED sse_vars /\ UNCHANGED resolver_vars

\* lines 132-134: the response is printed, or the exception's message;
\* the loop is back at line 128
ChatLoopReport ==
    /\ program = "client" /\ pc = "report"
    /\ printed' = Append(printed,
                     IF outcome.raised # ""
                     THEN [kind |-> "error", exc |-> outcome.raised, text |-> None]
                     ELSE [kind |-> "response", exc |-> "", text |-> outcome.value])
    /\ pc' = "input"
    \* the frame of process_query and the query's scripts are gone
    /\ planner_reply' = <<>>
    /\ tool_host' = [i \in 1..MaxPlanLen |-> [raises |-> FALSE, text |-> <<"42">>]]
    /\ model_summary' = [raises |-> FALSE, text |-> <<"answer">>]
    /\ tool_plan' = Unbound
    /\ messages' = <<>>
    /\ tool_outputs' = EmptyDict
    /\ tool_calls' = <<>>
    /\ outcome' = [raised |-> "", value |-> None]
    /\ UNCHANGED <<program, query>>
    /\ UNCHANGED sse_vars /\ UNCHANGED resolver_vars

----------------------------------------------------------------------------
(* fastmcp_sse_client.py: ChatSession.                                     *)
(*                                                                         *)
(* A model reply is [kind, tool, fenced]:                                  *)
(*   "call"    a JSON object with the keys tool and arguments,             *)
(*   "text"    text that is no JSON,                                       *)
(*   "scalar"  a JSON number, true, false or null,                         *)
(*   "array"   a JSON array,                                               *)
(*   "object"  a JSON object lacking tool or arguments;                    *)
(* fenced tells that the reply starts with the json code fence.  What      *)
(* process_llm_response returns has the same shape: the reply, or a        *)
(* "result", "error" or "notool" text naming the tool.                     *)

Content(kind, tool, fenced) == [kind |-> kind, tool |-> tool, fenced |-> fenced]

ModelReplies ==
    {Content("call", "add", FALSE), Content("call", "add", TRUE),
     Content("call", "no_such_tool", FALSE),
     Content("text", "", FALSE), Content("text", "", TRUE),
     Content("scalar", "", FALSE), Content("array", "", FALSE),
     Content("object", "", FALSE)}

\* the tools of fastmcp_sse_server.py, as list_tools returns them
SseCatalog == {"add", "substract", "multiply", "divide"}

\* lines 45-46: the fence is stripped from a reply that starts with it
StripFence(r) == IF r.fenced THEN [r EXCEPT !.fenced = FALSE] ELSE r

\* a faulty variant: the exception of call_tool is not caught (no handler
\* at lines 55-58) and leaves process_llm_response
process_llm_response_uncaught(r, host_raises) ==
    LET stripped == StripFence(r) IN
    CASE stripped.kind = "text" ->
            [raised |-> "", value |-> stripped, called |-> FALSE]
      [] stripped.kind = "scalar" ->
            [raised |-> "TypeError", value |-> stripped, called |-> FALSE]
      [] stripped.kind \in {"array", "object"} ->
            [raised |-> "", value |-> stripped, called |-> FALSE]
      [] stripped.kind = "call" ->
            IF stripped.tool \in SseCatalog
            THEN IF host_raises
                 THEN [raised |-> "Exception", value |-> stripped, called |-> TRUE]
                 ELSE [raised |-> "", called |-> TRUE,
                       value |-> Content("result", stripped.tool, FALSE)]
            ELSE [raised |-> "", called |-> FALSE,
                  value |-> Content("notool", stripped.tool, FALSE)]

\* lines 39-63: [raised, value, called]; raised is the exception that
\* leaves the function ("" when it returns value), called tells whether
\* call_tool was requested; host_raises scripts the tool host
process_llm_response(r, host_raises) ==
    LET stripped == StripFence(r) IN
    CASE stripped.kind = "text" ->
            \* json.loads raises JSONDecodeError (lines 61-63)
            [raised |-> "", value |-> stripped, called |-> FALSE]
      [] stripped.kind = "scalar" ->
            \* "tool" in tool_call raises TypeError, which no handler catches
            [raised |-> "TypeError", value |-> stripped, called |-> FALSE]
      [] stripped.kind \in {"array", "object"} ->
            \* line 60
            [raised |-> "", value |-> stripped, called |-> FALSE]
      [] stripped.kind = "call" ->
            IF stripped.tool \in SseCatalog
            THEN [raised |-> "", called |-> TRUE,
                  value |-> Content(IF host_raises THEN "error" ELSE "result",
                                    stripped.tool, FALSE)]
            ELSE [raised |-> "", called |-> FALSE,
                  value |-> Content("notool", stripped.tool, FALSE)]

Msg(role, content) == [role |-> role, content |-> content]

SseInit ==
    /\ s_pc = "input"
    /\ s_messages = <<Msg("system", Content("system_message", "", FALSE))>>
    /\ llm_response = Content("none", "", FALSE)
    /\ replies = <<>>
    /\ turn_calls = 0
    /\ turns = 0
    /\ requests = 0

\* lines 73 and 77: a user turn begins
S_Input ==
    /\ program = "sse" /\ s_pc = "input"
    /\ turns < MaxTurns
    /\ s_messages' = Append(s_messages, Msg("user", Content("user_input", "", FALSE)))
    /\ replies' = <<>>
    /\ turn_calls' = 0
    /\ turns' = turns + 1
    /\ s_pc' = "respond"
    /\ UNCHANGED <<program, llm_response, requests>>
    /\ UNCHANGED client_vars /\ UNCHANGED resolver_vars

\* lines 74-76: quit, exit
S_Quit ==
    /\ program = "sse" /\ s_pc = "input"
    /\ s_pc' = "exited"
    /\ UNCHANGED <<program, s_messages, llm_response, replies, turn_calls, turns,
                   requests>>
    /\ UNCHANGED client_vars /\ UNCHANGED resolver_vars

\* lines 93-95: KeyboardInterrupt inside the try block
S_Interrupt ==
    /\ program = "sse" /\ s_pc \in {"input", "respond", "process"}
    /\ s_pc' = "exited"
    /\ UNCHANGED <<program, s_messages, llm_response, replies, turn_calls, turns,
                   requests>>
    /\ UNCHANGED client_vars /\ UNCHANGED resolver_vars

\* lines 79 and 88: the model answers
S_GetResponse ==
    /\ program = "sse" /\ s_pc = "respond"
    /\ requests < MaxReplies
    /\ \E r \in ModelReplies :
         /\ llm_response' = r
         /\ replies' = Append(replies, r)
    /\ requests' = requests + 1
    /\ s_pc' = "process"
    /\ UNCHANGED <<program, s_messages, turn_calls, turns>>
    /\ UNCHANGED client_vars /\ UNCHANGED resolver_vars

\* lines 79 and 88: the completion call raises; start catches
\* KeyboardInterrupt only, so the exception leaves start
S_GetResponseRaises ==
    /\ program = "sse" /\ s_pc = "respond"
    /\ s_pc' = "crashed"
    /\ UNCHANGED <<program, s_messages, llm_response, replies, turn_calls, turns,
                   requests>>
    /\ UNCHANGED client_vars /\ UNCHANGED resolver_vars

\* lines 82-92: the reply is processed; then the loop body of lines 85-86
\* when result != llm_response, else line 92
S_Process ==
    /\ program = "sse" /\ s_pc = "process"
    /\ \E host_raises \in BOOLEAN :
         LET res == process_llm_response(llm_response, host_raises) IN
         /\ turn_calls' = IF res.called THEN turn_calls + 1 ELSE turn_calls
         /\ IF res.raised # ""
            THEN /\ s_pc' = "crashed"
                 /\ UNCHANGED s_messages
            ELSE IF res.value # llm_response
            THEN /\ s_messages' = s_messages \o <<Msg("assistant", llm_response),
                                                  Msg("system", res.value)>>
                 /\ s_pc' = "respond"
            ELSE /\ s_messages' = Append(s_messages, Msg("assistant", llm_response))
                 /\ s_pc' = "input"
    /\ UNCHANGED <<program, llm_response, replies, turns, requests>>
    /\ UNCHANGED client_vars /\ UNCHANGED resolver_vars

----------------------------------------------------------------------------
(* The placeholder resolution of client.py lines 83-87, applied to every   *)
(* arguments mapping and results mapping of a bounded set, once and then   *)
(* a second time to its own result.                                        *)

TextAlphabet == {"{", "}", " ", "a"}
ArgTexts == UNION {[1..n -> TextAlphabet] : n \in 0..MaxTextLen}
\* the text {{a}} and {{b}}: two placeholders inside one value
ArgTextAnd ==
    <<"{", "{", "a", "}", "}", " ", "and", " ", "{", "{", "b", "}", "}">>
ArgValues == {Str(s) : s \in ArgTexts \cup {ArgTextAnd}} \cup {None, Num}

\* the recorded output of tool "a", absent or one of these
OutputsOfA ==
    {Str(<<"42">>), Str(<<"{", "{", "b", "}", "}">>), Str(<<"{", "{", "a", "}", "}">>),
     Str(<<"{", "{", "c", "}", "}">>), Str(<<"{", "a", "}">>)}
\* the recorded output of tool "b", absent or one of these
OutputsOfB == {Str(<<"43">>), Str(<<"{", "{", " ", "a", " ", "}", "}">>)}

OutputDicts ==
    {EmptyDict}
      \cup {("a" :> x) : x \in OutputsOfA}
      \cup {("b" :> y) : y \in OutputsOfB}
      \cup {("a" :> x) @@ ("b" :> y) : x \in OutputsOfA, y \in OutputsOfB}

ResolverInit ==
    /\ r_pc = "start"
    /\ r_args \in {("x" :> v) @@ ("n" :> Num) : v \in ArgValues}
    /\ r_outputs \in OutputDicts
    /\ r_once = EmptyDict
    /\ r_twice = EmptyDict

ResolverIdle ==
    /\ r_pc = "idle"
    /\ r_args = EmptyDict
    /\ r_outputs = EmptyDict
    /\ r_once = EmptyDict
    /\ r_twice = EmptyDict

\* lines 83-87 on the planned arguments
ResolveOnce ==
    /\ program = "resolver" /\ r_pc = "start"
    /\ r_once' = ResolveArgs(r_args, r_outputs)
    /\ r_pc' = "once"
    /\ UNCHANGED <<program, r_args, r_outputs, r_twice>>
    /\ UNCHANGED client_vars /\ UNCHANGED sse_vars

\* lines 83-87 again, on the resolved arguments
ResolveTwice ==
    /\ program = "resolver" /\ r_pc = "once"
    /\ r_twice' = ResolveArgs(r_once, r_outputs)
    /\ r_pc' = "twice"
    /\ UNCHANGED <<program, r_args, r_outputs, r_once>>
    /\ UNCHANGED client_vars /\ UNCHANGED sse_vars

----------------------------------------------------------------------------
(* Specifications.                                                         *)

Init ==
    /\ program \in {"client", "sse"}
    /\ ClientInit /\ SseInit /\ ResolverIdle

Next ==
    \/ ChatLoopInput \/ ChatLoopQuit \/ ProcessQuery \/ ChatLoopReport
    \/ S_Input \/ S_Quit \/ S_Interrupt \/ S_GetResponse \/ S_GetResponseRaises
    \/ S_Process

\* the two clients
Spec == Init /\ [][Next]_vars

ResolveInit ==
    /\ program = "resolver"
    /\ ClientInit /\ SseInit /\ ResolverInit

ResolveNext == ResolveOnce \/ ResolveTwice

\* the resolver on bounded inputs
ResolveSpec == ResolveInit /\ [][ResolveNext]_vars

----------------------------------------------------------------------------
(* Claims.                                                                 *)

\* process_query has returned or raised for the query read last
QueryDone == program = "client" /\ pc = "report"

\* C1: for the plan [A, B] whose step B has the argument text = {{A}}, and
\* for every text t the tool host returns to A, process_query calls B with
\* text = t.
C1_ChainedOutputReachesNextStep ==
    (QueryDone /\ planner_reply \in TextsOf(PlanChain) /\ ~tool_host[1].raises)
        => /\ Len(tool_calls) >= 2
           /\ tool_calls[2].name = "analyze_sentiment"
           /\ tool_calls[2].arguments["text"] = Str(tool_host[1].text)

\* C2: for the plan [bad, good] whose first call fails (an unknown tool
\* answered with an error, or an exception of the tool host), good is still
\* called, and the transcript ends up holding a tool-role message for bad
\* and then the success message of good.
C2_FailingStepDoesNotHaltPlan ==
    (QueryDone /\ planner_reply \in TextsOf(PlanBadGood) /\ ~tool_host[2].raises)
        => /\ \E c \in DOMAIN tool_calls : tool_calls[c].name = "search_google_news"
           /\ \E i, j \in DOMAIN messages :
                /\ i < j
                /\ messages[i].role = "tool"
                /\ messages[i].tool_call_id = "no_such_tool"
                /\ messages[j] = [role |-> "tool",
                                  tool_call_id |-> "search_google_news",
                                  content |-> Str(tool_host[2].text)]

\* C3: for every well-formed plan, returned bare, inside a json code fence
\* or inside prose, plan_tool_use returns exactly the plan's ordered list of
\* (name, arguments) pairs.
C3_PlanParsedExactly ==
    \A p \in WellFormedPlans :
        (QueryDone /\ planner_reply \in TextsOf(p))
            => tool_plan = [bound |-> TRUE, plan |-> p]

\* C4: for every malformed planner text, planning yields the empty plan,
\* nothing raises, no tool is called and the query goes on to the summary
\* call as if no tools were needed.
C4_MalformedPlanIsEmptyPlan ==
    (QueryDone /\ planner_reply \in MalformedReplies)
        => /\ tool_plan = [bound |-> TRUE, plan |-> <<>>]
           /\ tool_calls = <<>>
           /\ outcome.raised \in {"", "APIError"}
           /\ ~model_summary.raises
                => outcome = [raised |-> "", value |-> Str(model_summary.text)]

\* C5: a step for analyze_sentiment without filename is called with the
\* default filename added, a step that supplies filename is called with its
\* own value, and a step for a tool without defaults is called with the
\* arguments as planned.
C5_DefaultsOnlyWhenOmitted ==
    /\ (QueryDone /\ planner_reply \in TextsOf(PlanOmitsDefault))
          => /\ Len(tool_calls) >= 1
             /\ tool_calls[1].arguments =
                    PlanOmitsDefault[1].arguments @@ ("filename" :> TxtFilename)
    /\ (QueryDone /\ planner_reply \in TextsOf(PlanSuppliesDefault))
          => /\ Len(tool_calls) >= 1
             /\ tool_calls[1].arguments = PlanSuppliesDefault[1].arguments
    /\ (QueryDone /\ planner_reply \in TextsOf(PlanNoDefault))
          => /\ Len(tool_calls) >= 1
             /\ tool_calls[1].arguments = PlanNoDefault[1].arguments

\* the turn's replies are n tool calls of catalog tools and then one reply
\* that is no tool call
ToolCallsThenPlain ==
    /\ replies # <<>>
    /\ replies[Len(replies)].kind # "call"
    /\ \A i \in 1..(Len(replies) - 1) :
          replies[i].kind = "call" /\ replies[i].tool \in SseCatalog

\* the reply received last has been processed
ReplyProcessed == program = "sse" /\ s_pc \in {"input", "respond", "crashed"}

\* C6: when the model answers n valid tool calls and then one reply that is
\* no tool call, the turn ends there: n tools were called, n+1 replies were
\* requested and the last message is the assistant's plain reply.
C6_TurnEndsOnFirstPlainReply ==
    (ReplyProcessed /\ ToolCallsThenPlain)
        => /\ s_pc = "input"
           /\ turn_calls = Len(replies) - 1
           /\ s_messages[Len(s_messages)] = Msg("assistant", replies[Len(replies)])

\* C7: the tool calls of one user turn never exceed the iteration bound.
C7_IterationBoundHolds ==
    program = "sse" => turn_calls <= IterationBound

\* C8 as stated: resolving the resolved arguments a second time against the
\* same results changes no value.
C8_ResolveIdempotent ==
    r_pc = "twice" => r_twice = r_once

\* C8 as amended: a whole-value placeholder {{tool}} of a recorded tool is
\* replaced by exactly the recorded output, also when that output looks like
\* a placeholder (one pass, no chain); and a second resolution changes no
\* value when no recorded output starts with {{ and ends with }}.
C8_ResolveSinglePass ==
    /\ r_pc \in {"once", "twice"}
          => \A k \in DOMAIN r_args : \A n \in DOMAIN r_outputs :
                r_args[k] = Placeholder(n) => r_once[k] = r_outputs[n]
    /\ (r_pc = "twice"
          /\ \A n \in DOMAIN r_outputs :
                ~(StartsWithBraces(r_outputs[n].s) /\ EndsWithBraces(r_outputs[n].s)))
          => r_twice = r_once

\* a second resolution has run on an argument {{a}} whose recorded output,
\* itself a placeholder-looking text, was substituted by the first
C8_Witness ==
    /\ r_pc = "twice"
    /\ r_args["x"] = Placeholder("a")
    /\ "a" \in DOMAIN r_outputs
    /\ IsPlaceholderValue(r_outputs["a"])
    /\ r_once["x"] = r_outputs["a"]

\* C9: every step of the plan is called exactly once, in plan order, so the
\* tool host sees as many calls as the plan has steps.
C9_OneCallPerStepInOrder ==
    \A p \in WellFormedPlans :
        (QueryDone /\ planner_reply \in TextsOf(p))
            => /\ Len(tool_calls) = Len(p)
               /\ \A i \in 1..Len(p) : tool_calls[i].name = p[i].name

\* C10: a step naming a tool that is not in the catalog is not handed to the
\* tool host; it is recorded as the step's error and the remaining steps
\* run (process_query), and in process_llm_response the reply's tool is not
\* called and the turn goes on with the error text.
C10_UnknownToolIsStepError ==
    /\ (QueryDone /\ planner_reply \in TextsOf(PlanBadGood) /\ ~tool_host[2].raises)
          => /\ \A c \in DOMAIN tool_calls : tool_calls[c].name # "no_such_tool"
             /\ \E i \in DOMAIN messages : messages[i].tool_call_id = "no_such_tool"
             /\ \E c \in DOMAIN tool_calls : tool_calls[c].name = "search_google_news"
    /\ (ReplyProcessed /\ replies # <<>>
          /\ replies[Len(replies)].kind = "call"
          /\ replies[Len(replies)].tool \notin SseCatalog)
          => /\ s_pc = "respond"
             /\ s_messages[Len(s_messages)] =
                    Msg("system", Content("notool", replies[Len(replies)].tool, FALSE))

\* C11: a step whose placeholder names a tool with no recorded result (a
\* step that has not run) raises nothing in the resolution and is still
\* called on the tool host, with the argument None.
C11_UnresolvedPlaceholderIsNone ==
    (QueryDone /\ planner_reply \in TextsOf(PlanUnresolved))
        => /\ Len(tool_calls) = 1
           /\ tool_calls[1].name = "search_google_news"
           /\ tool_calls[1].arguments = ("keywords" :> None)
           /\ outcome.raised \notin {"KeyError", "TypeError"}

\* exactly one whole-value placeholder: {{identifier}}, the identifier
\* possibly surrounded by spaces
WholeValuePlaceholder(val) ==
    /\ val.t = "str"
    /\ StartsWithBraces(val.s) /\ EndsWithBraces(val.s)
    /\ Len(val.s) >= 5
    /\ LET inner == Strip(SubSeq(val.s, 3, Len(val.s) - 2), {" "})
       IN  Len(inner) = 1 /\ inner[1] \notin {"{", "}", " "}

\* C12: every argument value that is not exactly one whole-value
\* placeholder (a number, None, a plain text, a text that only contains or
\* is bracketed by brace markers) is after the resolution the value of the
\* plan.
C12_NonPlaceholdersPassThrough ==
    r_pc \in {"once", "twice"}
        => \A k \in DOMAIN r_args :
              ~WholeValuePlaceholder(r_args[k]) => r_once[k] = r_args[k]

\* C13: the transcript of a query starts with the user query and grows by
\* exactly one tool-role message per executed step, in plan order: for a
\* plan whose calls all return, process_query ends with the user message
\* followed by the tool message of step 1, of step 2, and so on.
C13_TranscriptFollowsSteps ==
    \A p \in WellFormedPlans :
        (QueryDone /\ planner_reply \in TextsOf(p)
            /\ \A i \in 1..Len(p) : ~tool_host[i].raises)
            => messages =
                  <<[role |-> "user", tool_call_id |-> "", content |-> NewQuery(query)]>>
                    \o [i \in 1..Len(p) |->
                          [role |-> "tool", tool_call_id |-> p[i].name,
                           content |-> Str(tool_host[i].text)]]

\* C14: a failing model call ends the query it belongs to and nothing
\* else: chat_loop reports the error of process_query and reads the next
\* query, and ChatSession.start, when get_response raises, is back at the
\* prompt for the next user input.
C14_ModelFailureAbortsQueryOnly ==
    [][/\ (ChatLoopReport /\ outcome.raised # "")
            => /\ pc' = "input"
               /\ printed'[Len(printed')].kind = "error"
       /\ S_GetResponseRaises => s_pc' = "input"]_vars

\* C15: at the start of every user query the results mapping is empty and
\* the transcript holds nothing of an earlier query: process_query starts
\* from no results and no messages, and a turn of ChatSession.start starts
\* from the system message and the turn's own user message.
C15_NoStateCrossesQueries ==
    /\ (program = "client" /\ pc = "process_query")
          => tool_outputs = EmptyDict /\ messages = <<>>
    /\ (program = "sse" /\ s_pc = "respond" /\ replies = <<>>)
          => s_messages = <<Msg("system", Content("system_message", "", FALSE)),
                            Msg("user", Content("user_input", "", FALSE))>>

\* C16: for every plan whose calls all return, the empty plan included,
\* process_query calls every step, then asks the model once for the
\* summary of the transcript and returns that reply as the final answer.
C16_SummaryOnceAfterPlan ==
    \A p \in WellFormedPlans :
        (QueryDone /\ planner_reply \in TextsOf(p)
            /\ \A i \in 1..Len(p) : ~tool_host[i].raises
            /\ ~model_summary.raises)
            => /\ Len(tool_calls) = Len(p)
               /\ Len(messages) = 1 + Len(p)
               /\ outcome = [raised |-> "", value |-> Str(model_summary.text)]

\* C17: for the plan that calls search_google_news twice and then
\* analyze_sentiment with text = {{search_google_news}}, the result recorded
\* under search_google_news is the output of the second call, and the third
\* step is called with that output.
C17_LastResultWins ==
    (QueryDone /\ planner_reply \in TextsOf(PlanRepeat)
        /\ \A i \in 1..Len(PlanRepeat) : ~tool_host[i].raises)
        => /\ "search_google_news" \in DOMAIN tool_outputs
           /\ tool_outputs["search_google_news"] = Str(tool_host[2].text)
           /\ Len(tool_calls) = 3
           /\ tool_calls[3].arguments = ("text" :> Str(tool_host[2].text))
                                           @@ ("filename" :> TxtFilename)

\* C18: every reply that is no JSON object with the keys tool and
\* arguments (text, a JSON scalar, an array, an object lacking a key) ends
\* the turn: processing it calls no tool, raises nothing, appends the reply
\* as the assistant's message and returns to the prompt.
C18_NonToolReplyIsFinal ==
    [][(S_Process /\ llm_response.kind # "call")
          => /\ s_pc' = "input"
             /\ turn_calls' = turn_calls
             /\ s_messages' = Append(s_messages, Msg("assistant", llm_response))]_vars

C20_ResolvedBeforeDefaults ==
    (QueryDone /\ planner_reply \in TextsOf(PlanDefaultUnresolved))
        => /\ Len(tool_calls) = 1
           /\ tool_calls[1].name = "analyze_sentiment"
           /\ tool_calls[1].arguments = ("text" :> Str(<<"t">>)) @@ ("filename" :> None)

====
